---- MODULE Spec2Model ----
(***************************************************************************)
(* State compressor of conduwuit (src/service/rooms/state_compressor):     *)
(* the packed StateDiff record, the materializer with its LRU cache, the   *)
(* layer engine save_state_from_diff and the save_state entry point.       *)
(***************************************************************************)
EXTENDS Integers, Sequences, FiniteSets, TLC

VARIABLES
    room_shortstatehash,        \* rooms::state index of the one room: <<>> or <<ssh>>
    statehash_shortstatehash,   \* rooms::short interner: ssh -> interned state hash
    shortstatehash_statediff,   \* db column: ssh -> encoded record value
    stateinfo_cache,            \* LruCache<u64, Vec<ShortStateInfo>>, least recent first
    call,                       \* the last save_state call: arguments, path, result
    saves,                      \* save_state calls made so far
    codec,                      \* one record value on its way through the codec
    folding,                    \* diffs on their way through the fold operator
    engine,                     \* one save_state_from_diff call on a given parent stack
    recency,                    \* keys of the cache accessed since the last clear, oldest first
    parallel                    \* several rooms: their index entries and their save_state calls

vars == <<room_shortstatehash, statehash_shortstatehash, shortstatehash_statediff,
          stateinfo_cache, call, saves, codec, folding, engine, recency, parallel>>

(***************************************************************************)
(* Bounds of the model.                                                    *)
(***************************************************************************)
\* save_state calls made in one run
MaxSaves == 5
\* stateinfo_cache_capacity * cache_capacity_modifier
CacheCapacity == 2
\* save_state calls, cancelled ones included, in one run with cancellation
MaxCancelSaves == 4
\* save_state calls made in one run that keeps track of the cache accesses
MaxCacheSaves == 4
\* save_state calls begun in one run with several rooms
MaxParallelSaves == 3
\* layers of a parent stack handed to save_state_from_diff on its own
MaxStack == 4
\* diff_to_sibling handed to save_state_from_diff on its own
MaxSibling == 3

(***************************************************************************)
(* Values.  A CompressedStateEvent is shortstatekey || shorteventid, kept  *)
(* as the pair of its two big-endian u64 words; both are interned ids and  *)
(* so never 0.  Option<u64> is <<>> (None) or <<x>> (Some(x)).             *)
(***************************************************************************)
STRIDE == 8

Events == {<<1, 10>>, <<2, 11>>}

SeqToSet(s) == {s[i] : i \in 1..Len(s)}

\* the iteration orders a HashSet holding S may have
Orders(S) == {s \in [1..Cardinality(S) -> S] : SeqToSet(s) = S}

\* every HashSet<CompressedStateEvent> a caller may pass, with its iteration order
Inputs == UNION {Orders(S) : S \in SUBSET Events}

Last(s) == s[Len(s)]

StateDiff(parent, added, removed) ==
    [parent |-> parent, added |-> added, removed |-> removed]

ShortStateInfo(shortstatehash, full_state, added, removed) ==
    [shortstatehash |-> shortstatehash, full_state |-> full_state,
     added |-> added, removed |-> removed]

(***************************************************************************)
(* Codec.  A record value is a byte string; every field is a whole u64, so *)
(* it is kept as its whole 8-byte words plus the number of bytes (0..7)    *)
(* that follow the last whole word.                                        *)
(***************************************************************************)
Value(words, tail) == [words |-> words, tail |-> tail]

ByteLen(value) == STRIDE * Len(value.words) + value.tail

\* the 16 bytes of the CSEs of s, in order
Flatten(s) == [i \in 1..(2 * Len(s)) |-> s[(i + 1) \div 2][IF i % 2 = 1 THEN 1 ELSE 2]]

\* save_statediff with the separator between added and removed left out
save_statediff_value_no_sentinel(diff, oa, orm) ==
    Value(<<IF diff.parent = <<>> THEN 0 ELSE diff.parent[1]>>
              \o Flatten(oa) \o Flatten(orm),
          0)

\* save_statediff's value, the sets iterated in the orders oa and orm
save_statediff_value(diff, oa, orm) ==
    Value(<<IF diff.parent = <<>> THEN 0 ELSE diff.parent[1]>>
              \o Flatten(oa)
              \o (IF diff.removed # {} THEN <<0>> \o Flatten(orm) ELSE <<>>),
          0)

\* value.get(i .. i + 2 * STRIDE): <<>> or <<cse>>
GetCSE(value, i) ==
    IF i + 2 * STRIDE <= ByteLen(value)
    THEN <<<<value.words[i \div STRIDE + 1], value.words[i \div STRIDE + 2]>>>>
    ELSE <<>>

RECURSIVE decode_loop(_, _, _, _, _)
decode_loop(value, i, add_mode, added, removed) ==
    LET v == GetCSE(value, i) IN
    IF v = <<>> THEN [added |-> added, removed |-> removed]
    ELSE IF add_mode /\ v[1][1] = 0
         THEN decode_loop(value, i + STRIDE, FALSE, added, removed)
    ELSE IF add_mode
         THEN decode_loop(value, i + 2 * STRIDE, TRUE, added \cup {v[1]}, removed)
    ELSE decode_loop(value, i + 2 * STRIDE, FALSE, added, removed \cup {v[1]})

\* the decoding half of get_statediff; value[0..8] panics on a short value
decode_statediff(value) ==
    IF ByteLen(value) < STRIDE
    THEN [kind |-> "Panic", diff |-> StateDiff(<<>>, {}, {})]
    ELSE LET r == decode_loop(value, STRIDE, TRUE, {}, {}) IN
         [kind |-> "Ok",
          diff |-> StateDiff(IF value.words[1] # 0 THEN <<value.words[1]>> ELSE <<>>,
                             r.added, r.removed)]

get_statediff(db, shortstatehash) ==
    IF shortstatehash \notin DOMAIN db
    THEN [kind |-> "Err", diff |-> StateDiff(<<>>, {}, {})]
    ELSE decode_statediff(db[shortstatehash])

\* db.shortstatehash_statediff.insert(key, value): a put, overwriting
db_insert(db, shortstatehash, value) ==
    [k \in DOMAIN db \cup {shortstatehash} |->
        IF k = shortstatehash THEN value ELSE db[k]]

(***************************************************************************)
(* Cache: lru_cache::LruCache, entries kept least recently used first.     *)
(***************************************************************************)
cache_keys(cache) == {cache[i].key : i \in 1..Len(cache)}

cache_index(cache, key) == CHOOSE i \in 1..Len(cache) : cache[i].key = key

RemoveAt(s, i) == SubSeq(s, 1, i - 1) \o SubSeq(s, i + 1, Len(s))

\* a lookup that leaves the order of the entries alone
cache_peek(cache, key) ==
    IF key \in cache_keys(cache)
    THEN [hit |-> TRUE, value |-> cache[cache_index(cache, key)].value, cache |-> cache]
    ELSE [hit |-> FALSE, value |-> <<>>, cache |-> cache]

\* get_mut: a hit makes the entry the most recently used one
cache_get_mut(cache, key) ==
    IF key \in cache_keys(cache)
    THEN LET i == cache_index(cache, key) IN
         [hit |-> TRUE, value |-> cache[i].value,
          cache |-> Append(RemoveAt(cache, i), cache[i])]
    ELSE [hit |-> FALSE, value |-> <<>>, cache |-> cache]

\* insert: the entry becomes the most recent; over capacity the least recent goes
cache_insert(cache, key, value) ==
    LET without == IF key \in cache_keys(cache)
                   THEN RemoveAt(cache, cache_index(cache, key)) ELSE cache
        with == Append(without, [key |-> key, value |-> value])
    IN IF Len(with) > CacheCapacity THEN Tail(with) ELSE with

(***************************************************************************)
(* Materializer.                                                           *)
(***************************************************************************)
\* state.extend(added); for r in removed { state.remove(r) }
apply_diff(state, added, removed) == (state \cup added) \ removed

\* a materializer that caches the parent's stack, before the new layer is pushed
RECURSIVE load_caching_before_push(_, _, _)
load_caching_before_push(cache, db, shortstatehash) ==
    LET c == cache_get_mut(cache, shortstatehash) IN
    IF c.hit THEN [ok |-> TRUE, stack |-> c.value, cache |-> c.cache]
    ELSE
    LET d == get_statediff(db, shortstatehash) IN
    IF d.kind # "Ok" THEN [ok |-> FALSE, stack |-> <<>>, cache |-> cache]
    ELSE IF d.diff.parent # <<>>
    THEN LET r == load_caching_before_push(cache, db, d.diff.parent[1]) IN
         IF ~r.ok THEN r
         ELSE LET state == apply_diff(Last(r.stack).full_state,
                                      d.diff.added, d.diff.removed)
                  response == Append(r.stack,
                                     ShortStateInfo(shortstatehash, state,
                                                    d.diff.added, d.diff.removed))
              IN [ok |-> TRUE, stack |-> response,
                  cache |-> cache_insert(r.cache, shortstatehash, r.stack)]
    ELSE LET response == <<ShortStateInfo(shortstatehash, d.diff.added,
                                          d.diff.added, d.diff.removed)>>
         IN [ok |-> TRUE, stack |-> response,
             cache |-> cache_insert(cache, shortstatehash, response)]

RECURSIVE load_shortstatehash_info(_, _, _)
load_shortstatehash_info(cache, db, shortstatehash) ==
    LET c == cache_get_mut(cache, shortstatehash) IN
    IF c.hit THEN [ok |-> TRUE, stack |-> c.value, cache |-> c.cache]
    ELSE
    LET d == get_statediff(db, shortstatehash) IN
    IF d.kind # "Ok" THEN [ok |-> FALSE, stack |-> <<>>, cache |-> cache]
    ELSE IF d.diff.parent # <<>>
    THEN LET r == load_shortstatehash_info(cache, db, d.diff.parent[1]) IN
         IF ~r.ok THEN r
         ELSE LET state == apply_diff(Last(r.stack).full_state,
                                      d.diff.added, d.diff.removed)
                  response == Append(r.stack,
                                     ShortStateInfo(shortstatehash, state,
                                                    d.diff.added, d.diff.removed))
              IN [ok |-> TRUE, stack |-> response,
                  cache |-> cache_insert(r.cache, shortstatehash, response)]
    ELSE LET response == <<ShortStateInfo(shortstatehash, d.diff.added,
                                          d.diff.added, d.diff.removed)>>
         IN [ok |-> TRUE, stack |-> response,
             cache |-> cache_insert(cache, shortstatehash, response)]

(***************************************************************************)
(* Layer engine.  The sizes are usize and the arithmetic is checked; the   *)
(* sets of this model hold a handful of elements, so no sum or product     *)
(* comes near usize::MAX and the overflow error is not reachable.          *)
(***************************************************************************)
\* a pop that takes two layers off the stack
FrontTwo(s) == SubSeq(s, 1, Len(s) - 2)

\* parent_states after parent_states.pop()
Front(s) == SubSeq(s, 1, Len(s) - 1)

\* a fold that merges the two diffs without cancelling pairs
FoldNoCancel(parent, statediffnew, statediffremoved) ==
    [added |-> parent.added \cup statediffnew,
     removed |-> parent.removed \cup statediffremoved]

\* a fold whose first pass inserts every removed event without looking at parent_new
FoldSecondPassOnly(parent, statediffnew, statediffremoved) ==
    [added |-> parent.added \cup (statediffnew \ (parent.removed \cup statediffremoved)),
     removed |-> (parent.removed \cup statediffremoved) \ statediffnew]

\* the two cancel-pair passes over parent_new and parent_removed
Fold(parent, statediffnew, statediffremoved) ==
    LET parent_new1     == parent.added \ statediffremoved
        parent_removed1 == parent.removed \cup (statediffremoved \ parent.added)
        parent_removed2 == parent_removed1 \ statediffnew
        parent_new2     == parent_new1 \cup (statediffnew \ parent_removed1)
    IN [added |-> parent_new2, removed |-> parent_removed2]

\* the depth test off by one
TooManyLayersOffByOne(parent_states) == Len(parent_states) > 4

\* parent_states.len() > 3
TooManyLayers(parent_states) == Len(parent_states) > 3

\* the size test with > in place of >=
DiffTooBigStrict(diffsum, diff_to_sibling, parent_diff) ==
    diffsum * diffsum > 2 * diff_to_sibling * parent_diff

\* diffsum * diffsum >= 2 * diff_to_sibling * parent_diff
DiffTooBig(diffsum, diff_to_sibling, parent_diff) ==
    diffsum * diffsum >= 2 * diff_to_sibling * parent_diff

\* an engine that hands its own diff_to_sibling on to the recursive call
RECURSIVE save_state_from_diff_same_sibling(_, _, _, _, _)
save_state_from_diff_same_sibling(shortstatehash, statediffnew, statediffremoved, diff_to_sibling, parent_states) ==
    LET diffsum == Cardinality(statediffnew) + Cardinality(statediffremoved) IN
    IF TooManyLayers(parent_states)
    THEN LET parent == Last(parent_states)
             f == Fold(parent, statediffnew, statediffremoved)
             r == save_state_from_diff_same_sibling(shortstatehash, f.added, f.removed,
                                       diff_to_sibling, Front(parent_states))
         IN [r EXCEPT !.folds = @ + 1, !.capfold = TRUE,
                      !.calls = <<Len(parent_states)>> \o @]
    ELSE IF parent_states = <<>>
    THEN [key |-> shortstatehash,
          diff |-> StateDiff(<<>>, statediffnew, statediffremoved),
          folds |-> 0, capfold |-> FALSE, calls |-> <<0>>]
    ELSE LET parent == Last(parent_states)
             parent_diff == Cardinality(parent.added) + Cardinality(parent.removed)
         IN IF DiffTooBig(diffsum, diff_to_sibling, parent_diff)
            THEN LET f == Fold(parent, statediffnew, statediffremoved)
                     r == save_state_from_diff_same_sibling(shortstatehash, f.added, f.removed,
                                               diff_to_sibling, Front(parent_states))
                 IN [r EXCEPT !.folds = @ + 1, !.calls = <<Len(parent_states)>> \o @]
            ELSE [key |-> shortstatehash,
                  diff |-> StateDiff(<<parent.shortstatehash>>,
                                     statediffnew, statediffremoved),
                  folds |-> 0, capfold |-> FALSE, calls |-> <<Len(parent_states)>>]

\* The record the engine writes under shortstatehash, and the path it took: the
\* folds made, whether the depth cap made one, and the length of parent_states at
\* each invocation.
RECURSIVE save_state_from_diff(_, _, _, _, _)
save_state_from_diff(shortstatehash, statediffnew, statediffremoved, diff_to_sibling, parent_states) ==
    LET diffsum == Cardinality(statediffnew) + Cardinality(statediffremoved) IN
    IF TooManyLayers(parent_states)
    THEN LET parent == Last(parent_states)
             f == Fold(parent, statediffnew, statediffremoved)
             r == save_state_from_diff(shortstatehash, f.added, f.removed,
                                       diffsum, Front(parent_states))
         IN [r EXCEPT !.folds = @ + 1, !.capfold = TRUE,
                      !.calls = <<Len(parent_states)>> \o @]
    ELSE IF parent_states = <<>>
    THEN [key |-> shortstatehash,
          diff |-> StateDiff(<<>>, statediffnew, statediffremoved),
          folds |-> 0, capfold |-> FALSE, calls |-> <<0>>]
    ELSE LET parent == Last(parent_states)
             parent_diff == Cardinality(parent.added) + Cardinality(parent.removed)
         IN IF DiffTooBig(diffsum, diff_to_sibling, parent_diff)
            THEN LET f == Fold(parent, statediffnew, statediffremoved)
                     r == save_state_from_diff(shortstatehash, f.added, f.removed,
                                               diffsum, Front(parent_states))
                 IN [r EXCEPT !.folds = @ + 1, !.calls = <<Len(parent_states)>> \o @]
            ELSE [key |-> shortstatehash,
                  diff |-> StateDiff(<<parent.shortstatehash>>,
                                     statediffnew, statediffremoved),
                  folds |-> 0, capfold |-> FALSE, calls |-> <<Len(parent_states)>>]

(***************************************************************************)
(* Collaborators of save_state that live outside the compressor.           *)
(***************************************************************************)
\* utils::calculate_hash: a fixed digest of the keys joined in the order given,
\* taken to be free of collisions
calculate_hash(keys) == Flatten(keys)

\* rooms::short get_or_create_shortstatehash: ids are handed out from 1 upwards
get_or_create_shortstatehash(interner, state_hash) ==
    IF \E i \in 1..Len(interner) : interner[i] = state_hash
    THEN [shortstatehash |-> CHOOSE i \in 1..Len(interner) : interner[i] = state_hash,
          already_existed |-> TRUE, interner |-> interner]
    ELSE [shortstatehash |-> Len(interner) + 1,
          already_existed |-> FALSE, interner |-> Append(interner, state_hash)]

(***************************************************************************)
(* save_state.                                                             *)
(***************************************************************************)
\* the load error handed on with `?` instead of being swallowed
propagate_load_error(loaded) ==
    [ok |-> loaded.ok, stack |-> IF loaded.ok THEN loaded.stack ELSE <<>>]

\* load_shortstatehash_info(p).await.unwrap_or_default()
unwrap_or_default(loaded) ==
    [ok |-> TRUE, stack |-> IF loaded.ok THEN loaded.stack ELSE <<>>]

\* the layer engine run on every call
AlwaysWrite(already_existed) == TRUE

\* if !already_existed { save_state_from_diff(..) }
ShouldWrite(already_existed) == ~already_existed

\* the diff taken against the root of the stack instead of its tip
diff_against_root(new_state_ids_compressed, states_parents) ==
    IF states_parents # <<>>
    THEN [added |-> new_state_ids_compressed \ states_parents[1].full_state,
          removed |-> states_parents[1].full_state \ new_state_ids_compressed]
    ELSE [added |-> new_state_ids_compressed, removed |-> {}]

\* statediffnew and statediffremoved: the new state against the tip of the stack
diff_against_parent(new_state_ids_compressed, states_parents) ==
    IF states_parents # <<>>
    THEN [added |-> new_state_ids_compressed \ Last(states_parents).full_state,
          removed |-> Last(states_parents).full_state \ new_state_ids_compressed]
    ELSE [added |-> new_state_ids_compressed, removed |-> {}]

\* What one call leaves behind and returns: the interner and the cache after it, the
\* record it hands to save_statediff (write, <<>> when it writes none), and the
\* HashSetCompressStateEvent returned (shortstatehash, added, removed).
SaveResult(ok, g, cache, loaded, parents, added, removed, write) ==
    [ok |-> ok, shortstatehash |-> g.shortstatehash,
     already_existed |-> g.already_existed, interner |-> g.interner,
     cache |-> cache, loaded |-> loaded, parents |-> parents,
     added |-> added, removed |-> removed, write |-> write]

\* the layer engine is run unless the hash was interned before
save_state_write(g, cache, loaded, states_parents, d) ==
    SaveResult(TRUE, g, cache, loaded, Len(states_parents), d.added, d.removed,
               IF ShouldWrite(g.already_existed)
               THEN <<save_state_from_diff(g.shortstatehash, d.added, d.removed,
                                           2, states_parents)>>
               ELSE <<>>)

\* the call once the previous stack has been asked for (u: the stack, or the error)
save_state_loaded(new_state_ids_compressed, g, cache, loaded, u) ==
    IF ~u.ok
    THEN SaveResult(FALSE, g, cache, loaded, 0, {}, {}, <<>>)
    ELSE save_state_write(g, cache, loaded, u.stack,
                          diff_against_parent(new_state_ids_compressed, u.stack))

\* the call once the room has a previous state that was loaded with result l
save_state_previous(new_state_ids_compressed, g, l) ==
    save_state_loaded(new_state_ids_compressed, g, l.cache,
                      IF l.ok THEN "ok" ELSE "failed", unwrap_or_default(l))

\* the call once the state hash is interned (g)
save_state_interned(previous_shortstatehash, db, cache, new_state_ids_compressed, g) ==
    IF <<g.shortstatehash>> = previous_shortstatehash
    THEN SaveResult(TRUE, g, cache, "skipped", 0, {}, {}, <<>>)
    ELSE IF previous_shortstatehash = <<>>
    THEN save_state_loaded(new_state_ids_compressed, g, cache, "none",
                           [ok |-> TRUE, stack |-> <<>>])
    ELSE save_state_previous(new_state_ids_compressed, g,
             load_shortstatehash_info(cache, db, previous_shortstatehash[1]))

save_state(previous_shortstatehash, interner, db, cache, iter) ==
    save_state_interned(previous_shortstatehash, db, cache, SeqToSet(iter),
        get_or_create_shortstatehash(interner, calculate_hash(iter)))

\* the full state a short state hash stands for: <<>> when it cannot be loaded
Materialized(cache, db, shortstatehash) ==
    LET l == load_shortstatehash_info(cache, db, shortstatehash) IN
    IF l.ok THEN <<Last(l.stack).full_state>> ELSE <<>>

NoCall ==
    [op |-> "none", iter |-> <<>>, previous |-> <<>>, previous_state |-> <<>>,
     ok |-> TRUE, shortstatehash |-> 0, already_existed |-> FALSE,
     loaded |-> "none", parents |-> 0, added |-> {}, removed |-> {},
     wrote |-> FALSE, folds |-> 0, capfold |-> FALSE]

NoCodec ==
    [phase |-> "idle", diff |-> StateDiff(<<>>, {}, {}), value |-> Value(<<>>, 0),
     damage |-> "none", result |-> [kind |-> "None", diff |-> StateDiff(<<>>, {}, {})]]

NoDiff == [added |-> {}, removed |-> {}]

NoFolding ==
    [phase |-> "idle", base |-> {}, x |-> NoDiff, y |-> NoDiff, z |-> NoDiff,
     xy |-> NoDiff, yz |-> NoDiff, left |-> NoDiff, right |-> NoDiff]

\* the rooms of the runs with parallel calls
Rooms == {"a", "b"}

\* a room's task when no save_state call of the room is in flight
NoTask ==
    [pc |-> "idle", iter |-> <<>>, previous |-> <<>>, shortstatehash |-> 0,
     already_existed |-> FALSE]

NoReturn == [room |-> "", ok |-> FALSE, shortstatehash |-> 0, already_existed |-> FALSE]

NoParallel ==
    [rooms |-> [room \in Rooms |-> <<>>], tasks |-> [room \in Rooms |-> NoTask],
     returned |-> NoReturn]

NoEngine ==
    [phase |-> "idle", shortstatehash |-> 0, parent_states |-> <<>>,
     new_state |-> {}, diff_to_sibling |-> 0, result |-> <<>>]

Init ==
    /\ room_shortstatehash = <<>>
    /\ statehash_shortstatehash = <<>>
    /\ shortstatehash_statediff = <<>>
    /\ stateinfo_cache = <<>>
    /\ call = NoCall
    /\ saves = 0
    /\ codec = NoCodec
    /\ folding = NoFolding
    /\ engine = NoEngine
    /\ recency = <<>>
    /\ parallel = NoParallel

\* the call as it is remembered: r is save_state's result
CallRecord(iter, previous, previous_state, r) ==
    [op |-> "save", iter |-> iter, previous |-> previous,
     previous_state |-> previous_state,
     ok |-> r.ok, shortstatehash |-> r.shortstatehash,
     already_existed |-> r.already_existed, loaded |-> r.loaded,
     parents |-> r.parents, added |-> r.added, removed |-> r.removed,
     wrote |-> r.write # <<>>,
     folds |-> IF r.write # <<>> THEN r.write[1].folds ELSE 0,
     capfold |-> IF r.write # <<>> THEN r.write[1].capfold ELSE FALSE]

\* save_statediff(key, diff): the sets are laid out in whatever order they iterate
save_statediff(db, write) ==
    IF write = <<>> THEN {db}
    ELSE {db_insert(db, write[1].key, save_statediff_value(write[1].diff, oa, orm)) :
            oa \in Orders(write[1].diff.added), orm \in Orders(write[1].diff.removed)}

\* save_state(room, iter) runs to its end; the caller then points the room at the
\* short state hash returned.  (SaveState, Load and ClearCache leave recency and
\* parallel to the specification that uses them.)
SaveState(iter) ==
    /\ saves < MaxSaves
    /\ saves' = saves + 1
    /\ \E r \in {save_state(room_shortstatehash, statehash_shortstatehash,
                            shortstatehash_statediff, stateinfo_cache, iter)} :
          /\ statehash_shortstatehash' = r.interner
          /\ stateinfo_cache' = r.cache
          /\ room_shortstatehash' =
                 IF r.ok THEN <<r.shortstatehash>> ELSE room_shortstatehash
          /\ shortstatehash_statediff' \in save_statediff(shortstatehash_statediff, r.write)
          /\ call' = CallRecord(iter, room_shortstatehash,
                         IF room_shortstatehash = <<>> THEN <<>>
                         ELSE Materialized(<<>>, shortstatehash_statediff,
                                           room_shortstatehash[1]),
                         r)
    /\ UNCHANGED <<codec, folding, engine>>

\* load_shortstatehash_info(shortstatehash) called from outside
Load(shortstatehash) ==
    /\ stateinfo_cache' = load_shortstatehash_info(stateinfo_cache,
                              shortstatehash_statediff, shortstatehash).cache
    /\ UNCHANGED <<room_shortstatehash, statehash_shortstatehash,
                   shortstatehash_statediff, call, saves, codec, folding, engine>>

\* clear_cache()
ClearCache ==
    /\ stateinfo_cache' = <<>>
    /\ UNCHANGED <<room_shortstatehash, statehash_shortstatehash,
                   shortstatehash_statediff, call, saves, codec, folding, engine>>

Next ==
    \/ \E iter \in Inputs : SaveState(iter) /\ UNCHANGED <<recency, parallel>>
    \/ \E shortstatehash \in 1..MaxSaves : Load(shortstatehash) /\ UNCHANGED <<recency, parallel>>
    \/ ClearCache /\ UNCHANGED <<recency, parallel>>

Spec == Init /\ [][Next]_vars

\* the store as sequences of save_state calls alone build it
NextSaves == \E iter \in Inputs : SaveState(iter) /\ UNCHANGED <<recency, parallel>>

SpecSaves == Init /\ [][NextSaves]_vars

(***************************************************************************)
(* Cancellation: the future of a save_state call is dropped while it is    *)
(* suspended at one of its three awaits.  At the room index read and at    *)
(* the interner call nothing has happened yet.  At the load of the         *)
(* previous stack the state hash is interned; the load suspends only in    *)
(* get_statediff, that is after a cache miss and before any cache insert,  *)
(* so the cache is as it was.  Nothing suspends after the load.            *)
(***************************************************************************)
SuspensionPoints == {"index", "intern", "load"}

CancelledSave(iter, point) ==
    LET g == get_or_create_shortstatehash(statehash_shortstatehash, calculate_hash(iter))
    IN
    /\ saves < MaxCancelSaves
    /\ saves' = saves + 1
    /\ point = "load" => /\ room_shortstatehash # <<>>
                         /\ <<g.shortstatehash>> # room_shortstatehash
                         /\ room_shortstatehash[1] \notin cache_keys(stateinfo_cache)
    /\ statehash_shortstatehash' =
           IF point = "load" THEN g.interner ELSE statehash_shortstatehash
    /\ UNCHANGED <<room_shortstatehash, shortstatehash_statediff, stateinfo_cache,
                   call, codec, folding, engine, recency, parallel>>

NextCancel ==
    \/ \E iter \in Inputs : saves < MaxCancelSaves /\ SaveState(iter) /\ UNCHANGED <<recency, parallel>>
    \/ \E shortstatehash \in 1..MaxCancelSaves : Load(shortstatehash) /\ UNCHANGED <<recency, parallel>>
    \/ ClearCache /\ UNCHANGED <<recency, parallel>>
    \/ \E iter \in Inputs, point \in SuspensionPoints : CancelledSave(iter, point)

SpecCancel == Init /\ [][NextCancel]_vars

(***************************************************************************)
(* Parallel calls: every room has at most one save_state call in flight    *)
(* (its caller serializes them), and the calls of different rooms share    *)
(* the interner, the store and the cache.  A call runs from one await to   *)
(* the next in one step: it is begun and reads the room index; it gets its *)
(* short state hash from the interner and, if it has a previous stack to   *)
(* load that the cache does not hold, suspends in the load; it ends with   *)
(* the diff, the write and the return, between which nothing suspends.     *)
(* The load is taken at the step that ends it: the records it reads never  *)
(* change, so its result does not depend on when its reads are made.       *)
(***************************************************************************)
ParallelFrame ==
    UNCHANGED <<room_shortstatehash, call, codec, folding, engine, recency>>

\* the call of the room comes to its end with result r; its caller points the room
\* at the short state hash returned
ReturnSave(room, r) ==
    /\ stateinfo_cache' = r.cache
    /\ shortstatehash_statediff' \in save_statediff(shortstatehash_statediff, r.write)
    /\ parallel' = [parallel EXCEPT
                       !.rooms[room] = IF r.ok THEN <<r.shortstatehash>> ELSE @,
                       !.tasks[room] = NoTask,
                       !.returned = [room |-> room, ok |-> r.ok,
                                     shortstatehash |-> r.shortstatehash,
                                     already_existed |-> r.already_existed]]

\* save_state(room, iter) is called and has read the room index
BeginSave(room, iter) ==
    /\ saves < MaxParallelSaves
    /\ parallel.tasks[room].pc = "idle"
    /\ saves' = saves + 1
    /\ parallel' = [parallel EXCEPT
                       !.tasks[room] = [pc |-> "intern", iter |-> iter,
                                        previous |-> parallel.rooms[room],
                                        shortstatehash |-> 0, already_existed |-> FALSE]]
    /\ UNCHANGED <<statehash_shortstatehash, shortstatehash_statediff, stateinfo_cache>>
    /\ ParallelFrame

\* the load of the previous stack would suspend: there is one to load, and it is not cached
LoadSuspends(previous, g) ==
    /\ previous # <<>>
    /\ <<g.shortstatehash>> # previous
    /\ previous[1] \notin cache_keys(stateinfo_cache)

\* get_or_create_shortstatehash returns; the call goes on to its end unless the load
\* of the previous stack suspends it
InternSave(room) ==
    /\ parallel.tasks[room].pc = "intern"
    /\ \E t \in {parallel.tasks[room]} :
       \E g \in {get_or_create_shortstatehash(statehash_shortstatehash,
                                              calculate_hash(t.iter))} :
          /\ statehash_shortstatehash' = g.interner
          /\ IF LoadSuspends(t.previous, g)
             THEN /\ parallel' = [parallel EXCEPT
                                     !.tasks[room] = [t EXCEPT !.pc = "load",
                                         !.shortstatehash = g.shortstatehash,
                                         !.already_existed = g.already_existed]]
                  /\ UNCHANGED <<shortstatehash_statediff, stateinfo_cache>>
             ELSE \E r \in {save_state_interned(t.previous, shortstatehash_statediff,
                                stateinfo_cache, SeqToSet(t.iter), g)} :
                     ReturnSave(room, r)
    /\ UNCHANGED saves
    /\ ParallelFrame

\* the load of the previous stack ends, and the call with it
FinishSave(room) ==
    /\ parallel.tasks[room].pc = "load"
    /\ \E t \in {parallel.tasks[room]} :
       \E r \in {save_state_interned(t.previous, shortstatehash_statediff,
                     stateinfo_cache, SeqToSet(t.iter),
                     [shortstatehash |-> t.shortstatehash,
                      already_existed |-> t.already_existed,
                      interner |-> statehash_shortstatehash])} :
          ReturnSave(room, r)
    /\ UNCHANGED <<statehash_shortstatehash, saves>>
    /\ ParallelFrame

NextParallel ==
    \/ \E room \in Rooms, iter \in Inputs : BeginSave(room, iter)
    \/ \E room \in Rooms : InternSave(room)
    \/ \E room \in Rooms : FinishSave(room)

SpecParallel == Init /\ [][NextParallel]_vars

(***************************************************************************)
(* The cache next to the history of its accesses.  An access is a hit of   *)
(* get_mut or an insert; recency lists the keys accessed since the last    *)
(* clear_cache, each once, the least recently accessed first.              *)
(***************************************************************************)
\* the keys load_shortstatehash_info accesses, in order: the hit or the base insert
\* at the bottom of the descent, then the inserts on the way up
RECURSIVE load_accesses(_, _, _)
load_accesses(cache, db, shortstatehash) ==
    LET d == get_statediff(db, shortstatehash) IN
    IF shortstatehash \in cache_keys(cache) THEN <<shortstatehash>>
    ELSE IF d.kind # "Ok" THEN <<>>
    ELSE IF d.diff.parent = <<>> THEN <<shortstatehash>>
    ELSE LET below == load_accesses(cache, db, d.diff.parent[1]) IN
         IF below = <<>> THEN <<>> ELSE Append(below, shortstatehash)

\* the keys a save_state call accesses: those of the load of the previous stack
save_state_accesses(iter) ==
    LET g == get_or_create_shortstatehash(statehash_shortstatehash, calculate_hash(iter))
    IN IF room_shortstatehash = <<>> \/ <<g.shortstatehash>> = room_shortstatehash
       THEN <<>>
       ELSE load_accesses(stateinfo_cache, shortstatehash_statediff, room_shortstatehash[1])

RECURSIVE Touch(_, _)
Touch(order, keys) ==
    IF keys = <<>> THEN order
    ELSE Touch(Append(SelectSeq(order, LAMBDA k : k # Head(keys)), Head(keys)), Tail(keys))

NextCache ==
    \/ \E iter \in Inputs :
          /\ saves < MaxCacheSaves
          /\ SaveState(iter)
          /\ recency' = Touch(recency, save_state_accesses(iter))
          /\ UNCHANGED parallel
    \/ \E shortstatehash \in 1..MaxCacheSaves :
          /\ Load(shortstatehash)
          /\ recency' = Touch(recency, load_accesses(stateinfo_cache,
                                           shortstatehash_statediff, shortstatehash))
          /\ UNCHANGED parallel
    \/ ClearCache /\ recency' = <<>> /\ UNCHANGED parallel

SpecCache == Init /\ [][NextCache]_vars

(***************************************************************************)
(* The replace scenario: one room, and callers that save the sets {1:A},   *)
(* {1:A, 2:B} and {1:A, 2:C}, in any order and any number of times.        *)
(***************************************************************************)
ScenarioSets == {{<<1, 10>>}, {<<1, 10>>, <<2, 11>>}, {<<1, 10>>, <<2, 12>>}}

ScenarioInputs == UNION {Orders(S) : S \in ScenarioSets}

NextScenario == \E iter \in ScenarioInputs : SaveState(iter) /\ UNCHANGED <<recency, parallel>>

SpecScenario == Init /\ [][NextScenario]_vars

(***************************************************************************)
(* The codec on its own: a StateDiff is encoded by save_statediff, the     *)
(* stored bytes may be damaged (cut short, or followed by stray bytes),    *)
(* and the decoding half of get_statediff reads them back.                 *)
(***************************************************************************)
CodecEvents == {<<1, 10>>, <<2, 10>>}

CodecParents == {<<>>, <<1>>, <<2>>}

CodecDiffs ==
    {StateDiff(p, a, r) : p \in CodecParents, a \in SUBSET CodecEvents,
                          r \in SUBSET CodecEvents}

\* the first n bytes of a value
Truncate(value, n) ==
    Value(SubSeq(value.words, 1, n \div STRIDE), n % STRIDE)

\* a value followed by n < 2 * STRIDE more bytes, the first whole word of them being w
Trail(value, n, w) ==
    Value(IF n >= STRIDE THEN Append(value.words, w) ELSE value.words, n % STRIDE)

InitCodec ==
    /\ room_shortstatehash = <<>>
    /\ statehash_shortstatehash = <<>>
    /\ shortstatehash_statediff = <<>>
    /\ stateinfo_cache = <<>>
    /\ call = NoCall
    /\ saves = 0
    /\ codec \in {[NoCodec EXCEPT !.phase = "input", !.diff = d] : d \in CodecDiffs}
    /\ folding = NoFolding
    /\ engine = NoEngine
    /\ recency = <<>>
    /\ parallel = NoParallel

CodecFrame ==
    UNCHANGED <<room_shortstatehash, statehash_shortstatehash,
                shortstatehash_statediff, stateinfo_cache, call, saves, folding, engine,
                recency, parallel>>

Encode ==
    /\ codec.phase = "input"
    /\ \E oa \in Orders(codec.diff.added), orm \in Orders(codec.diff.removed) :
          codec' = [codec EXCEPT !.phase = "stored",
                                 !.value = save_statediff_value(codec.diff, oa, orm)]
    /\ CodecFrame

CutShort(n) ==
    /\ codec.phase = "stored"
    /\ codec.damage = "none"
    /\ n <= ByteLen(codec.value)
    /\ codec' = [codec EXCEPT !.damage = "cut",
                              !.value = Truncate(codec.value, ByteLen(codec.value) - n)]
    /\ CodecFrame

TrailBytes(n, w) ==
    /\ codec.phase = "stored"
    /\ codec.damage = "none"
    /\ codec' = [codec EXCEPT !.damage = "trail", !.value = Trail(codec.value, n, w)]
    /\ CodecFrame

Decode ==
    /\ codec.phase = "stored"
    /\ codec' = [codec EXCEPT !.phase = "decoded",
                              !.result = decode_statediff(codec.value)]
    /\ CodecFrame

NextCodec ==
    \/ Encode
    \/ \E n \in 1..(2 * STRIDE - 1) : CutShort(n)
    \/ \E n \in 1..(2 * STRIDE - 1), w \in {0, 1} : TrailBytes(n, w)
    \/ Decode

SpecCodec == InitCodec /\ [][NextCodec]_vars

(***************************************************************************)
(* The fold on its own: the two cancel-pair passes of save_state_from_diff *)
(* applied to a layer diff x and a new diff y, and to three diffs x, y, z  *)
(* grouped from the left and from the right, next to a base state the      *)
(* diffs are applied to as load_shortstatehash_info applies them.          *)
(***************************************************************************)
FoldEvents == {<<1, 10>>, <<2, 11>>}

FoldDiffs == {[added |-> a, removed |-> r] : a \in SUBSET FoldEvents, r \in SUBSET FoldEvents}

InitFold ==
    /\ room_shortstatehash = <<>>
    /\ statehash_shortstatehash = <<>>
    /\ shortstatehash_statediff = <<>>
    /\ stateinfo_cache = <<>>
    /\ call = NoCall
    /\ saves = 0
    /\ codec = NoCodec
    /\ engine = NoEngine
    /\ recency = <<>>
    /\ parallel = NoParallel
    /\ folding \in {[NoFolding EXCEPT !.phase = "input", !.base = b, !.x = x, !.y = y, !.z = z] :
                       b \in SUBSET FoldEvents, x \in FoldDiffs, y \in FoldDiffs, z \in FoldDiffs}

FoldFrame ==
    UNCHANGED <<room_shortstatehash, statehash_shortstatehash,
                shortstatehash_statediff, stateinfo_cache, call, saves, codec, engine,
                recency, parallel>>

\* y folded into the layer x
FoldLayer ==
    /\ folding.phase = "input"
    /\ folding' = [folding EXCEPT !.phase = "folded",
                       !.xy = Fold(folding.x, folding.y.added, folding.y.removed)]
    /\ FoldFrame

\* z folded into the result, and y and z folded first
FoldAgain ==
    /\ folding.phase = "folded"
    /\ \E yz \in {Fold(folding.y, folding.z.added, folding.z.removed)} :
          folding' = [folding EXCEPT !.phase = "grouped", !.yz = yz,
                          !.left = Fold(folding.xy, folding.z.added, folding.z.removed),
                          !.right = Fold(folding.x, yz.added, yz.removed)]
    /\ FoldFrame

NextFold ==
    \/ FoldLayer
    \/ FoldAgain

SpecFold == InitFold /\ [][NextFold]_vars

(***************************************************************************)
(* The layer engine on its own: save_state_from_diff is handed the stack   *)
(* of a chain of states (each layer the diff against the layer below, as   *)
(* load_shortstatehash_info builds it) and the diff of a new state against *)
(* the tip, either with a diff_to_sibling of the caller's choice or the    *)
(* way save_state calls it, and its record goes to an empty store.          *)
(***************************************************************************)
EngineEvents == {<<1, 10>>, <<2, 11>>}

\* the stack of the chain states[1], .., states[n], stored under the SSHs 1..n
EngineStack(states) ==
    [i \in 1..Len(states) |->
        ShortStateInfo(i, states[i],
                       IF i = 1 THEN states[1] ELSE states[i] \ states[i - 1],
                       IF i = 1 THEN {} ELSE states[i - 1] \ states[i])]

EngineStacks ==
    {EngineStack(states) : states \in UNION {[1..n -> SUBSET EngineEvents] : n \in 0..MaxStack}}

InitEngine ==
    /\ room_shortstatehash = <<>>
    /\ statehash_shortstatehash = <<>>
    /\ shortstatehash_statediff = <<>>
    /\ stateinfo_cache = <<>>
    /\ call = NoCall
    /\ saves = 0
    /\ codec = NoCodec
    /\ folding = NoFolding
    /\ recency = <<>>
    /\ parallel = NoParallel
    /\ engine \in {[NoEngine EXCEPT !.phase = "input", !.shortstatehash = Len(stack) + 1,
                                    !.parent_states = stack, !.new_state = n,
                                    !.diff_to_sibling = sibling] :
                      stack \in EngineStacks, n \in SUBSET EngineEvents,
                      sibling \in 0..MaxSibling}

EngineFrame ==
    UNCHANGED <<room_shortstatehash, statehash_shortstatehash,
                stateinfo_cache, call, saves, codec, folding, recency, parallel>>

\* the diff save_state hands to the engine
EngineDiff == diff_against_parent(engine.new_state, engine.parent_states)

\* save_state_from_diff(shortstatehash, added, removed, diff_to_sibling, parent_states)
RunEngine ==
    /\ engine.phase = "input"
    /\ \E d \in {EngineDiff} :
          engine' = [engine EXCEPT !.phase = "done",
                        !.result = <<save_state_from_diff(engine.shortstatehash,
                                         d.added, d.removed, engine.diff_to_sibling,
                                         engine.parent_states)>>]
    /\ shortstatehash_statediff' \in save_statediff(shortstatehash_statediff, engine'.result)
    /\ EngineFrame

\* the engine as save_state runs it for a state hash that was not interned before
RunFromSaveState ==
    /\ engine.phase = "input"
    /\ engine' = [engine EXCEPT !.phase = "saved",
                     !.result = save_state_write(
                                    [shortstatehash |-> engine.shortstatehash,
                                     already_existed |-> FALSE, interner |-> <<>>],
                                    <<>>, "ok", engine.parent_states, EngineDiff).write]
    /\ shortstatehash_statediff' \in save_statediff(shortstatehash_statediff, engine'.result)
    /\ EngineFrame

NextEngine ==
    \/ RunEngine
    \/ RunFromSaveState

SpecEngine == InitEngine /\ [][NextEngine]_vars

(***************************************************************************)
(* Properties.                                                             *)
(***************************************************************************)
\* the set of CSEs a state hash was computed from
HashedSet(state_hash) ==
    {<<state_hash[2 * i - 1], state_hash[2 * i]>> : i \in 1..(Len(state_hash) \div 2)}

\* layers on the persisted parent chain of a short state hash
RECURSIVE ChainLength(_, _)
ChainLength(db, shortstatehash) ==
    LET d == get_statediff(db, shortstatehash) IN
    IF d.kind # "Ok" THEN 0
    ELSE IF d.diff.parent = <<>> THEN 1
    ELSE 1 + ChainLength(db, d.diff.parent[1])

Interned == 1..Len(statehash_shortstatehash)

Stored == DOMAIN shortstatehash_statediff

WarmLoad(shortstatehash) ==
    load_shortstatehash_info(stateinfo_cache, shortstatehash_statediff, shortstatehash)

ColdLoad(shortstatehash) ==
    load_shortstatehash_info(<<>>, shortstatehash_statediff, shortstatehash)

NewSet == SeqToSet(call.iter)

\* two answers of load_shortstatehash_info: both errors, or the same stack
SameAnswer(warm, cold) == warm.ok = cold.ok /\ warm.stack = cold.stack

\* C1: every short state hash a save_state call returned loads, and the full state
\* of the tip of its stack is the set that was saved under it, whatever the layer
\* engine did (root write, child write, heuristic fold, depth-cap fold).
C1_MaterializationSound ==
    \A ssh \in Interned :
        Materialized(stateinfo_cache, shortstatehash_statediff, ssh)
            = <<HashedSet(statehash_shortstatehash[ssh])>>

\* C1 witness: a save that went through the depth-cap fold, wrote, and loads back.
C1_Witness ==
    /\ call.op = "save" /\ call.wrote /\ call.capfold
    /\ Materialized(stateinfo_cache, shortstatehash_statediff, call.shortstatehash)
           = <<NewSet>>

\* C2: every persisted parent chain has at most 4 layers, and so has every stack
\* load_shortstatehash_info returns.
C2_DepthBound ==
    \A ssh \in Stored :
        /\ ChainLength(shortstatehash_statediff, ssh) <= 4
        /\ Len(WarmLoad(ssh).stack) <= 4

\* C2 witness: a save onto a stack of 4 layers, folded by the depth cap, whose own
\* chain is 4 layers long.
C2_Witness ==
    /\ call.op = "save" /\ call.wrote /\ call.capfold /\ call.parents = 4
    /\ ChainLength(shortstatehash_statediff, call.shortstatehash) = 4

\* C3: with any cache content the program can reach, load_shortstatehash_info
\* answers exactly as it does with an empty cache.
C3_CacheTransparent ==
    \A ssh \in 1..MaxSaves : SameAnswer(WarmLoad(ssh), ColdLoad(ssh))

\* C3 witness: a full cache holding a stack of several layers, and a stored record
\* that is not cached while its parent is.
C3_Witness ==
    /\ Len(stateinfo_cache) = CacheCapacity
    /\ \E i \in 1..Len(stateinfo_cache) : Len(stateinfo_cache[i].value) >= 2
    /\ \E ssh \in Stored \ cache_keys(stateinfo_cache) :
          LET d == get_statediff(shortstatehash_statediff, ssh).diff IN
          d.parent # <<>> /\ d.parent[1] \in cache_keys(stateinfo_cache)

\* C4: saving the set the room's previous state materializes to writes no record
\* and returns the previous short state hash with empty added and removed.
C4_IdempotentSave ==
    (call.op = "save" /\ call.previous # <<>> /\ call.previous_state = <<NewSet>>)
        => /\ ~call.wrote
           /\ <<call.shortstatehash>> = call.previous
           /\ call.added = {} /\ call.removed = {}

\* C5: sets with the same members get the same state hash, hence the same short
\* state hash, whatever order they iterate in.
C5_StableHashing ==
    \A i, j \in Interned :
        HashedSet(statehash_shortstatehash[i]) = HashedSet(statehash_shortstatehash[j])
            => i = j

\* C6: decoding what save_statediff wrote gives back the parent and the added and
\* removed sets, in whatever order the sets were written.
C6_RoundTrip ==
    (codec.phase = "decoded" /\ codec.damage = "none")
        => /\ codec.result.kind = "Ok"
           /\ codec.result.diff = codec.diff

\* C6 witness: a record with a parent, two added and two removed events, written
\* with the second event first, decoded.
C6_Witness ==
    /\ codec.phase = "decoded" /\ codec.damage = "none"
    /\ codec.diff.parent # <<>>
    /\ Cardinality(codec.diff.added) = 2 /\ Cardinality(codec.diff.removed) = 2
    /\ codec.value.words[2] = 2

\* C7: a save whose short state hash differs from the previous one returns
\* added = new \ previous state and removed = previous state \ new (added = new and
\* removed = {} without a previous state), so the diff applied to the previous
\* state gives the new set.
C7_ReturnedDiff ==
    (call.op = "save" /\ call.ok /\ <<call.shortstatehash>> # call.previous)
        => IF call.previous = <<>>
           THEN call.added = NewSet /\ call.removed = {}
           ELSE /\ call.previous_state # <<>>
                /\ call.added = NewSet \ call.previous_state[1]
                /\ call.removed = call.previous_state[1] \ NewSet
                /\ apply_diff(call.previous_state[1], call.added, call.removed) = NewSet

\* C7 witness: a save over a previous state that both adds and removes and that
\* the layer engine folded.
C7_Witness ==
    /\ call.op = "save" /\ call.previous # <<>> /\ call.folds > 0
    /\ call.added # {} /\ call.removed # {}

\* C8: a stored record is never overwritten or deleted; a step writes at most under
\* the short state hash it has just interned for the first time.
C8_RecordsImmutable ==
    [][/\ \A k \in Stored :
             /\ k \in DOMAIN shortstatehash_statediff'
             /\ shortstatehash_statediff'[k] = shortstatehash_statediff[k]
       /\ \A k \in DOMAIN shortstatehash_statediff' \ Stored :
             /\ Len(statehash_shortstatehash') = Len(statehash_shortstatehash) + 1
             /\ k = Len(statehash_shortstatehash')]_vars

\* C8 witness: a save of a state hash that was interned before, from another
\* previous state: it has a diff to store and stores nothing.
C8_Witness ==
    /\ call.op = "save" /\ call.already_existed
    /\ <<call.shortstatehash>> # call.previous
    /\ call.added # {} /\ ~call.wrote

\* C9: decoding a value that was cut short or has stray bytes after its last whole
\* CSE ends in a CorruptRecord error.
C9_CorruptReported ==
    (codec.phase = "decoded" /\ codec.damage # "none")
        => codec.result.kind = "CorruptRecord"

\* C10: when the room has a previous short state hash that cannot be loaded,
\* save_state still succeeds: it returns added = new set and removed = {}, and,
\* unless the hash was interned before, stores the base record
\* {parent = None, added = new set, removed = {}}.
C10_MissingHistory ==
    (call.op = "save" /\ call.previous # <<>> /\ call.loaded = "failed")
        => /\ call.ok
           /\ call.added = NewSet /\ call.removed = {}
           /\ call.wrote = ~call.already_existed
           /\ call.wrote =>
                  /\ get_statediff(shortstatehash_statediff, call.shortstatehash).kind = "Ok"
                  /\ get_statediff(shortstatehash_statediff, call.shortstatehash).diff
                         = StateDiff(<<>>, NewSet, {})

\* C10 witness: such a save, of a hash not interned before, has written.
C10_Witness ==
    /\ call.op = "save" /\ call.previous # <<>> /\ call.loaded = "failed"
    /\ call.wrote /\ NewSet # {}

\* C11: after any cancelled save_state calls, every save_state that succeeds returns
\* a short state hash that loads and materializes to the set that was saved, the
\* set of a cancelled save included.
C11_CancelSafe ==
    (call.op = "save" /\ call.ok)
        => Materialized(stateinfo_cache, shortstatehash_statediff, call.shortstatehash)
               = <<NewSet>>

Disjoint(d) == d.added \cap d.removed = {}

\* d is a diff over the state: it adds nothing the state has and removes only what it has
DiffOver(state, d) == d.added \cap state = {} /\ d.removed \subseteq state

\* the fold as the closed formula (A \ r) \cup (a \ R), (R \ a) \cup (r \ A)
FoldFormula(x, y) ==
    [added |-> (x.added \ y.removed) \cup (y.added \ x.removed),
     removed |-> (x.removed \ y.added) \cup (y.removed \ x.added)]

\* C12: for a layer diff (A,R) and a new diff (a,r), each with disjoint sets, the
\* fold is (A \ r) \cup (a \ R), (R \ a) \cup (r \ A), its two sets are disjoint, and
\* applied to any base state it gives what applying (A,R) and then (a,r) gives.
C12_FoldCorrect ==
    (folding.phase = "folded" /\ Disjoint(folding.x) /\ Disjoint(folding.y))
        => /\ folding.xy = FoldFormula(folding.x, folding.y)
           /\ Disjoint(folding.xy)
           /\ apply_diff(folding.base, folding.xy.added, folding.xy.removed)
                  = apply_diff(apply_diff(folding.base, folding.x.added, folding.x.removed),
                               folding.y.added, folding.y.removed)

\* C12 amended: the same, for a base state that (A,R) is a diff over (A adds nothing
\* the base has, R removes only what the base has).
C12_FoldCorrectOverBase ==
    (/\ folding.phase = "folded" /\ Disjoint(folding.x) /\ Disjoint(folding.y)
     /\ DiffOver(folding.base, folding.x))
        => /\ folding.xy = FoldFormula(folding.x, folding.y)
           /\ Disjoint(folding.xy)
           /\ apply_diff(folding.base, folding.xy.added, folding.xy.removed)
                  = apply_diff(apply_diff(folding.base, folding.x.added, folding.x.removed),
                               folding.y.added, folding.y.removed)

\* C12 witness: a fold over such a base in which one pair cancels in each pass.
C12_Witness ==
    /\ folding.phase = "folded" /\ Disjoint(folding.x) /\ Disjoint(folding.y)
    /\ DiffOver(folding.base, folding.x)
    /\ folding.x.added \cap folding.y.removed # {}
    /\ folding.x.removed \cap folding.y.added # {}

\* the run so far is the three saves {1:A}, {1:A, 2:B}, {1:A, 2:C} from a fresh room
ReplaceScenario ==
    /\ saves = 3 /\ Len(statehash_shortstatehash) = 3
    /\ HashedSet(statehash_shortstatehash[1]) = {<<1, 10>>}
    /\ HashedSet(statehash_shortstatehash[2]) = {<<1, 10>>, <<2, 11>>}
    /\ HashedSet(statehash_shortstatehash[3]) = {<<1, 10>>, <<2, 12>>}

\* C13: after saving {1:A}, then {1:A, 2:B}, then {1:A, 2:C} from a fresh room, the
\* record stored for the third SSH is {parent = Some(H2), added = {2:C},
\* removed = {2:B}}.
C13_ReplaceRecord ==
    ReplaceScenario
        => /\ get_statediff(shortstatehash_statediff, 3).kind = "Ok"
           /\ get_statediff(shortstatehash_statediff, 3).diff
                  = StateDiff(<<2>>, {<<2, 12>>}, {<<2, 11>>})

\* C13 amended: the third save returns added = {2:C}, removed = {2:B}, and the size
\* test (2 * 2 >= 2 * 2 * 1) folds that diff into the layer of H2, so the record
\* stored for H3 is {parent = Some(H1), added = {2:C}, removed = {}}; the records of
\* H1 and H2 are {None, {1:A}, {}} and {Some(H1), {2:B}, {}}.
C13_ReplaceRecordFolded ==
    ReplaceScenario
        => /\ room_shortstatehash = <<3>>
           /\ call.added = {<<2, 12>>} /\ call.removed = {<<2, 11>>}
           /\ get_statediff(shortstatehash_statediff, 1).diff
                  = StateDiff(<<>>, {<<1, 10>>}, {})
           /\ get_statediff(shortstatehash_statediff, 2).diff
                  = StateDiff(<<1>>, {<<2, 11>>}, {})
           /\ get_statediff(shortstatehash_statediff, 3).kind = "Ok"
           /\ get_statediff(shortstatehash_statediff, 3).diff
                  = StateDiff(<<1>>, {<<2, 12>>}, {})

\* C13 witness: the scenario has run and its third save wrote a record.
C13_Witness ==
    ReplaceScenario /\ call.wrote /\ call.shortstatehash = 3 /\ call.folds = 1

\* the full state a record of the engine is a diff over: that of its parent layer
EngineParentState(diff) ==
    IF diff.parent = <<>> THEN {} ELSE engine.parent_states[diff.parent[1]].full_state

\* the placement rule for a call that was started with the given diff_to_sibling
PlacementRule(sibling, stack, d, r) ==
    LET P == Last(stack)
        D == Cardinality(d.added) + Cardinality(d.removed)
        P_cost == Cardinality(P.added) + Cardinality(P.removed)
        f == FoldFormula(P, d)
    IN IF D * D < 2 * sibling * P_cost
       THEN /\ r.diff = StateDiff(<<P.shortstatehash>>, d.added, d.removed)
            /\ r.folds = 0
       ELSE /\ r.diff.parent # <<P.shortstatehash>>
            /\ r.folds >= 1
            /\ r.diff = save_state_from_diff(engine.shortstatehash, f.added, f.removed,
                                             D, Front(stack)).diff
            /\ apply_diff(EngineParentState(r.diff), r.diff.added, r.diff.removed)
                   = engine.new_state

\* C14: on a parent stack of 1 to 3 layers with tip P the engine stores the diff
\* unchanged as a child of P exactly when D * D < 2 * diff_to_sibling * P_cost;
\* otherwise it stores no child of P: it folds the diff into P's diff and goes on
\* with the rest of the stack and diff_to_sibling = D, and the one record written
\* holds the combined change.  save_state starts the engine with diff_to_sibling 2.
C14_PlacementRule ==
    (engine.phase \in {"done", "saved"} /\ Len(engine.parent_states) \in 1..3)
        => /\ Len(engine.result) = 1
           /\ engine.result[1].key = engine.shortstatehash
           /\ PlacementRule(IF engine.phase = "saved" THEN 2 ELSE engine.diff_to_sibling,
                            engine.parent_states, EngineDiff, engine.result[1])

\* C14 witness: on a stack of 3 a call with diff_to_sibling 0 folds into the tip and
\* then stores a child of the middle layer: the second test was made with
\* diff_to_sibling = D, with 0 it would have folded again.
C14_Witness ==
    /\ engine.phase = "done" /\ Len(engine.parent_states) = 3
    /\ engine.diff_to_sibling = 0
    /\ engine.result[1].folds = 1
    /\ engine.result[1].diff.parent = <<2>>

\* the record stored under a short state hash
Record(shortstatehash) == get_statediff(shortstatehash_statediff, shortstatehash).diff

\* C15: every stored record with parent = None has removed = {} and its added set is
\* the full state saved under its SSH, also when the record is the result of
\* folding a diff all the way down into a base layer.
C15_BaseLayer ==
    \A ssh \in Stored :
        Record(ssh).parent = <<>>
            => /\ Record(ssh).removed = {}
               /\ Record(ssh).added = HashedSet(statehash_shortstatehash[ssh])

\* C15 witness: a save over a stored base layer that removed an event and was folded
\* into that base layer, which left a second base record.
C15_Witness ==
    /\ call.op = "save" /\ call.wrote /\ call.parents = 1 /\ call.folds = 1
    /\ call.removed # {}
    /\ Record(call.shortstatehash).parent = <<>>

\* following parents from a short state hash ends at a base layer within `hops`
\* records, every record on the way being present
RECURSIVE ReachesBase(_, _, _)
ReachesBase(db, shortstatehash, hops) ==
    LET d == get_statediff(db, shortstatehash) IN
    /\ hops > 0
    /\ d.kind = "Ok"
    /\ d.diff.parent # <<>> => ReachesBase(db, d.diff.parent[1], hops - 1)

\* the parent named by the value stored under a short state hash
ParentOf(db, shortstatehash) == get_statediff(db, shortstatehash).diff.parent

\* C16: the parent of a record is None or the SSH of a record that was in the store
\* before the record was written, so from every stored SSH the parents lead to a
\* base layer, without a cycle and without a missing record.
C16_WellFoundedChain ==
    [][/\ \A k \in DOMAIN shortstatehash_statediff' \ Stored :
             \/ ParentOf(shortstatehash_statediff', k) = <<>>
             \/ ParentOf(shortstatehash_statediff', k)[1] \in Stored
       /\ \A k \in DOMAIN shortstatehash_statediff' :
             ReachesBase(shortstatehash_statediff', k,
                         Cardinality(DOMAIN shortstatehash_statediff'))]_vars

\* C16 witness: a chain of four stored layers.
C16_Witness ==
    \E k \in Stored :
        /\ ChainLength(shortstatehash_statediff, k) = 4
        /\ ReachesBase(shortstatehash_statediff, k, 4)

\* C17: every stored record with a parent has added \cap removed = {}, whether it
\* holds the diff save_state computed or the result of folds.
C17_DisjointDiff ==
    \A ssh \in Stored :
        Record(ssh).parent # <<>> => Record(ssh).added \cap Record(ssh).removed = {}

\* C17 witness: the last save wrote a folded record with a parent whose sets are not
\* those save_state computed, next to another record with a parent in the store.
C17_Witness ==
    /\ call.op = "save" /\ call.wrote /\ call.folds >= 1
    /\ Record(call.shortstatehash).parent # <<>>
    /\ Record(call.shortstatehash).added \cup Record(call.shortstatehash).removed
           # call.added \cup call.removed
    /\ \E ssh \in Stored \ {call.shortstatehash} :
          Record(ssh).parent # <<>> /\ Record(ssh).added # {} /\ Record(ssh).removed = {}

\* y does not repeat a change x has just made
NoRepeat(x, y) == x.added \cap y.added = {} /\ x.removed \cap y.removed = {}

\* C18: for diffs x, y, z, each with disjoint added and removed sets, folding y into
\* x and then z into the result gives what folding into x the fold of z into y gives.
C18_FoldAssociative ==
    (/\ folding.phase = "grouped"
     /\ Disjoint(folding.x) /\ Disjoint(folding.y) /\ Disjoint(folding.z))
        => folding.left = folding.right

\* C18 amended: the same, for diffs of which none adds what the diff before it added
\* or removes what the diff before it removed, as it is with the diffs between
\* successive states.
C18_FoldAssociativeNoRepeat ==
    (/\ folding.phase = "grouped"
     /\ Disjoint(folding.x) /\ Disjoint(folding.y) /\ Disjoint(folding.z)
     /\ NoRepeat(folding.x, folding.y) /\ NoRepeat(folding.y, folding.z))
        => folding.left = folding.right

\* C18 witness: three such diffs in which y undoes a change of x and z undoes a
\* change of y, so a pair cancels in either grouping.
C18_Witness ==
    /\ folding.phase = "grouped"
    /\ Disjoint(folding.x) /\ Disjoint(folding.y) /\ Disjoint(folding.z)
    /\ NoRepeat(folding.x, folding.y) /\ NoRepeat(folding.y, folding.z)
    /\ folding.x.added \cap folding.y.removed \cap folding.z.added # {}
    /\ folding.x.removed \cap folding.y.added \cap folding.z.removed # {}
    /\ folding.left = folding.right

\* the keys of the cache, least recently used first
CacheOrder == [i \in 1..Len(stateinfo_cache) |-> stateinfo_cache[i].key]

\* the last n elements of a sequence, all of it when it is shorter
Latest(s, n) == IF Len(s) <= n THEN s ELSE SubSeq(s, Len(s) - n + 1, Len(s))

\* C19: the cache never holds more than its capacity; what it holds are the keys
\* accessed most recently since the last clear_cache (a hit of get_mut and an
\* insert both count), in that order, so every eviction took the least recently
\* accessed entry; after clear_cache it is empty.
C19_StrictLru ==
    /\ Len(stateinfo_cache) <= CacheCapacity
    /\ CacheOrder = Latest(recency, CacheCapacity)
    /\ recency = <<>> => stateinfo_cache = <<>>

\* C19 witness: more keys were accessed than the cache holds, and the one evicted is
\* not the smallest SSH: an entry loaded before it was kept because it was accessed
\* again.
C19_Witness ==
    /\ Len(recency) > CacheCapacity
    /\ Len(stateinfo_cache) = CacheCapacity
    /\ \E k \in cache_keys(stateinfo_cache) : k < recency[1]
    /\ \E i \in 1..Len(stateinfo_cache) : Len(stateinfo_cache[i].value) >= 2

\* the lengths L, L - 1, .., L - n
CountDown(L, n) == [i \in 1..(n + 1) |-> L - i + 1]

\* C20: a call of save_state_from_diff on a stack of L layers makes at most L + 1
\* invocations, each on a stack one layer shorter than the one before, and leaves
\* exactly one record in the store, under the short state hash it was given.
C20_EngineTerminates ==
    engine.phase \in {"done", "saved"}
        => /\ Len(engine.result) = 1
           /\ Len(engine.result[1].calls) <= Len(engine.parent_states) + 1
           /\ engine.result[1].calls
                  = CountDown(Len(engine.parent_states), engine.result[1].folds)
           /\ engine.result[1].key = engine.shortstatehash
           /\ Stored = {engine.shortstatehash}
           /\ Record(engine.shortstatehash) = engine.result[1].diff

\* C20 witness: a call on a stack of 4 layers that folded all the way down and wrote
\* a base record in its fifth invocation.
C20_Witness ==
    /\ engine.phase = "done" /\ Len(engine.parent_states) = 4
    /\ engine.result[1].calls = <<4, 3, 2, 1, 0>>
    /\ Stored = {engine.shortstatehash}
    /\ Record(engine.shortstatehash).parent = <<>>
    /\ Record(engine.shortstatehash).added # {}

\* C21: with save_state calls of different rooms running in parallel, a call that
\* returns Ok returns a short state hash whose record is in the store at that
\* moment, also when another room's call interned the same state hash.
C21_ReturnedLoadable ==
    parallel.returned.ok
        => get_statediff(shortstatehash_statediff, parallel.returned.shortstatehash).kind
               = "Ok"

====
